---- MODULE Spec2Model ----
(***************************************************************************)
(* Point-based validation of the WOfS water classifier on Sentinel-2       *)
(* (Notebooks/Processing_S2.ipynb): the decision tree of wofs_classify,    *)
(* the per-point reduction of get_wofs_for_point and the worker pool of    *)
(* _parallel_fun.                                                          *)
(*                                                                         *)
(* Numbers.  Band values are the uint16 digital numbers of the s2_l2a      *)
(* product, which wofs_classify converts to float32 (exactly, they are     *)
(* below 2^24).  A half-integer threshold t is compared as 2*b <= 2*t.     *)
(* A normalised ratio (a-b)/(a+b) is kept as the pair of its exact         *)
(* numerator and denominator and compared with k/100 by cross              *)
(* multiplication; for uint16 operands the float32 quotient and the        *)
(* float32 threshold compare the same way as the exact values, because two *)
(* different values n/d and k/100 with d < 2^17 are further apart than one *)
(* float32 ulp.  A zero denominator gives the IEEE result: 0/0 is NaN      *)
(* (every comparison false), n/0 is +inf or -inf.                          *)
(***************************************************************************)
EXTENDS Integers, Sequences, FiniteSets, TLC

VARIABLES
    \* ---- one call of wofs_classify on one pixel
    bands,              \* the six reflectances of the pixel: [B02, B03, B04, B08, B11, B12]
    clean_mask,         \* the caller's mask at the pixel
    no_data_u8,         \* what casting no_data = NaN to uint8 produced in np.full
    classified,         \* _run_regression's uint8 grid (<< >> before the call, then one pixel)
    written,            \* the leaf nodes that wrote the pixel, in order
    classified_clean,   \* wofs_classify's float64 grid (<< >> before the call, then one pixel)
    dtypes,             \* the numeric type of each band array of dataset_in
    enforce_float64,    \* the call's enforce_float64 argument
    calls,              \* per call made: dataset_in's types before it and its output
    \* ---- get_wofs_for_point
    input_data,         \* the catalog: a sequence of rows [PLOT_ID, MONTH]
    index,              \* the row the call is about (1-based here)
    s2_data,            \* the call's local s2_data: << >> until dc.load returns, then << dataset >>
    wofls,              \* s2_wofs['wofs']: time x footprint grid of float64
    results_wet,        \* key -> int(wet)
    results_clear,      \* key -> int(n_clear)
    ret,                \* "pending", "returned" or "raised"
    time,               \* the time argument of dc.load: << >>, then << start, end >> as strings
    dc_query,           \* the call's local dc_query: << >>, then << the dictionary >>
    request,            \* the keyword arguments of dc.load: << >>, then << the arguments >>
    \* ---- _parallel_fun
    ncpus,              \* the size of the worker pool
    tasks,              \* the rows handed to pool.apply_async so far, in order
    tpc,                \* per row: where its task is
    local,              \* per row: what its task got from the provider and computed
    pbar,               \* the progress bar's counter
    mpc,                \* where the notebook is: "submit", "join", "returned" (_parallel_fun),
                        \* then "merged" or "merge_raised" (the merge cell)
    lastw,              \* per mapping and key: the task and value of the latest update
    final_df,           \* the merged table: the set of its rows
    \* ---- the accuracy assessment (second notebook; its table is input_data too)
    Wet_Season,         \* the rows of input_data in the wet months
    confusion_matrix,   \* the report: a frame of labelled rows and columns
    apc                 \* the last cell run: "start", ..., "fscore", or the exception raised

cvars == <<bands, clean_mask, no_data_u8, classified, written, classified_clean>>
pvars == <<input_data, index, s2_data, wofls, results_wet, results_clear, ret>>
qvars == <<ncpus, tasks, tpc, local, pbar, mpc, lastw>>
dvars == <<dtypes, enforce_float64, calls>>
avars == <<Wet_Season, confusion_matrix, apc>>
rvars == <<dc_query, request>>
vars == <<cvars, pvars, qvars, dvars, time, final_df, avars, rvars>>

\* A float64 value: NaN, or the number v
NaN == [nan |-> TRUE, v |-> 0]
Float(x) == [nan |-> FALSE, v |-> x]

\* dict() / manager.dict(): a mapping with no key
EmptyDict == [k \in {} |-> 0]

\* No pool has been created
NoPool ==
    /\ ncpus = 0
    /\ tasks = << >>
    /\ tpc = << >>
    /\ local = << >>
    /\ pbar = 0
    /\ mpc = "submit"
    /\ lastw = [m \in {"wet", "clear"} |-> EmptyDict]

\* get_wofs_for_point has not built its request
NoWindow == time = << >>

\* get_wofs_for_point has not copied the query nor called dc.load
NoRequest == dc_query = << >> /\ request = << >>

\* The merge cell has not run
NoMerge == final_df = {}

\* An empty frame, and the accuracy assessment not begun
NoFrame == [index |-> << >>, columns |-> << >>, v |-> << >>]
NoAccuracy ==
    /\ Wet_Season = << >>
    /\ confusion_matrix = NoFrame
    /\ apc = "none"

\* xarray.Dataset(): what dc.load returns when it finds no dataset
EmptyDataset == [vars |-> {}, time |-> << >>]

----------------------------------------------------------------------------
(* wofs_classify: the decision tree *)

\* _band_ratio(a, b) = (a - b) / (a + b), kept exact
band_ratio(a, b) == [n |-> a - b, d |-> a + b]

\* q <= k/100 as numpy evaluates it on the float quotient q.n / q.d
ratio_le(q, k) ==
    IF q.d > 0 THEN 100 * q.n <= k * q.d
    ELSE IF q.d < 0 THEN 100 * q.n >= k * q.d
    ELSE q.n < 0            \* -inf <= k is true; NaN <= k and +inf <= k are false

\* band1..band7 of _run_regression, as wofs_classify passes them
band1(b) == b.B02
band2(b) == b.B03
band3(b) == b.B04
band4(b) == b.B08
band5(b) == b.B11
band7(b) == b.B12

ndi_52(b) == band_ratio(band5(b), band2(b))
ndi_43(b) == band_ratio(band4(b), band3(b))
ndi_72(b) == band_ratio(band7(b), band2(b))

r1(b)  == ratio_le(ndi_52(b), -1)       \* ndi_52 <= -0.01
r2(b)  == 2 * band1(b) <= 4167          \* band1 <= 2083.5
r3(b)  == 2 * band7(b) <= 647           \* band7 <= 323.5
r4(b)  == ratio_le(ndi_43(b), 61)       \* ndi_43 <= 0.61
r5(b)  == 2 * band1(b) <= 2801          \* band1 <= 1400.5
r6(b)  == ratio_le(ndi_43(b), -1)       \* ndi_43 <= -0.01
r7(b)  == ratio_le(ndi_72(b), -23)      \* ndi_72 <= -0.23
r8(b)  == band1(b) <= 379
r9(b)  == ratio_le(ndi_43(b), 22)       \* ndi_43 <= 0.22
r10(b) == band1(b) <= 473
\* (variant of r11: ndi_52 < 0.23)
r11_strict(b) ==
    LET q == ndi_52(b) IN ratio_le(q, 23) /\ 100 * q.n # 23 * q.d
r11(b) == ratio_le(ndi_52(b), 23)       \* ndi_52 <= 0.23
r12(b) == 2 * band1(b) <= 669           \* band1 <= 334.5
r13(b) == ratio_le(ndi_43(b), 54)       \* ndi_43 <= 0.54
r14(b) == ratio_le(ndi_52(b), 12)       \* ndi_52 <= 0.12
r15(b) == 2 * band3(b) <= 729           \* band3 <= 364.5
r16(b) == 2 * band1(b) <= 259           \* band1 <= 129.5
r17(b) == 2 * band1(b) <= 601           \* band1 <= 300.5
r18(b) == ratio_le(ndi_52(b), 34)       \* ndi_52 <= 0.34
r19(b) == 2 * band1(b) <= 499           \* band1 <= 249.5
r20(b) == ratio_le(ndi_43(b), 45)       \* ndi_43 <= 0.45
r21(b) == 2 * band3(b) <= 729           \* band3 <= 364.5
r22(b) == 2 * band1(b) <= 259           \* band1 <= 129.5

\* (variant of right_branch: r1 = ndi_52 > -0.01, false where ndi_52 is NaN)
right_branch_gt(b) ==
    LET q == ndi_52(b) IN q.d # 0 /\ ~ratio_le(q, -1)
\* r1 = ~r1: the right branch is the complement of the left-branch mask
right_branch(b) == ~r1(b)

\* One masked assignment  classified[mask] = val  #Node n
Write(n, m, v) == [node |-> n, mask |-> m, val |-> v]

\* The masked assignments of _run_regression in program order, with the
\* successive values of _tmp and _tmp2 (tK is _tmp after its K-th assignment,
\* uK is _tmp2 after its K-th assignment).
LeafWrites(b) ==
    LET left == r1(b)
        t1 == left /\ r2(b)             \* _tmp = r1 & r2
        u1 == t1 /\ r3(b)               \* _tmp2 = _tmp & r3
        t2 == t1 /\ ~r3(b)              \* _tmp &= ~r3
        u2 == t2 /\ ~r5(b)              \* _tmp2 = _tmp & ~r5
        t3 == t2 /\ r5(b)               \* _tmp &= r5
        u3 == t3 /\ ~r7(b)              \* _tmp2 = _tmp & ~r7
        t4 == t3 /\ r7(b)               \* _tmp &= r7
        t5 == t4 /\ ~r9(b)              \* _tmp &= ~r9
        right == right_branch(b)        \* r1 = ~r1
        t6 == right /\ r11(b)           \* _tmp = r1 & r11
        u4 == t6 /\ ~r12(b)             \* _tmp2 = _tmp & ~r12
        t7 == t6 /\ r12(b)              \* _tmp &= r12
        u5 == t7 /\ ~r13(b)             \* _tmp2 = _tmp & ~r13
        t8 == t7 /\ r13(b)              \* _tmp &= r13
        u6 == t8 /\ r14(b)              \* _tmp2 = _tmp & r14
        t9 == t8 /\ ~r14(b)             \* _tmp &= ~r14
        u7 == t9 /\ r15(b)              \* _tmp2 = _tmp & r15
        t10 == t9 /\ ~r15(b)            \* _tmp &= ~r15
        u8 == t10 /\ ~r17(b)            \* _tmp2 = _tmp & ~r17
        t11 == t10 /\ r17(b)            \* _tmp &= r17
        t12 == right /\ ~r11(b)         \* _tmp = r1 & ~r11
        t13 == t12 /\ r18(b)            \* _tmp &= r18
        t14 == t13 /\ r19(b)            \* _tmp &= r19
        t15 == t14 /\ r20(b)            \* _tmp &= r20
        t16 == t15 /\ r21(b)            \* _tmp &= r21
    IN  << Write(3,  left /\ ~r2(b), 0),
           Write(6,  u1 /\ r4(b), 1),
           Write(7,  u1 /\ ~r4(b), 0),
           Write(10, u2 /\ r6(b), 1),
           Write(11, u2 /\ ~r6(b), 0),
           Write(14, u3 /\ r8(b), 1),
           Write(15, u3 /\ ~r8(b), 0),
           Write(17, t4 /\ r9(b), 1),
           Write(19, t5 /\ r10(b), 1),
           Write(20, t5 /\ ~r10(b), 0),
           Write(23, u4, 0),
           Write(25, u5, 0),
           Write(27, u6, 1),
           Write(31, u7 /\ r16(b), 1),
           Write(32, u7 /\ ~r16(b), 0),
           Write(33, t11, 1),
           Write(34, u8, 0),
           Write(36, t12 /\ ~r18(b), 0),
           Write(38, t13 /\ ~r19(b), 0),
           Write(40, t14 /\ ~r20(b), 0),
           Write(42, t15 /\ ~r21(b), 0),
           Write(44, t16 /\ r22(b), 1),
           Write(45, t16 /\ ~r22(b), 0) >>

\* The grid value after the first k masked assignments, starting from the fill
RECURSIVE ApplyWrites(_, _, _)
ApplyWrites(ws, k, init) ==
    IF k = 0 THEN init
    ELSE LET before == ApplyWrites(ws, k - 1, init)
         IN  IF ws[k].mask THEN ws[k].val ELSE before

\* The nodes whose assignment touched the pixel, in program order
WritingNodes(b) ==
    LET ws == LeafWrites(b)
    IN  SelectSeq([i \in 1..Len(ws) |-> IF ws[i].mask THEN ws[i].node ELSE 0],
                  LAMBDA n : n # 0)

\* classified = np.full(shape, no_data, dtype='uint8'), then the tree
run_regression(b, fill) ==
    LET ws == LeafWrites(b) IN ApplyWrites(ws, Len(ws), fill)

\* classified_clean = np.full(shape, no_data, 'float64');
\* classified_clean[clean_mask] = classified[clean_mask]
wofs_classify(b, mask, fill) ==
    IF mask THEN Float(run_regression(b, fill)) ELSE NaN

----------------------------------------------------------------------------
(* Inputs of the classifier check: values on both sides of every threshold *)

B02Values == {100, 200, 280, 320, 379, 380, 473, 474, 1401, 2084}
B03Values == {0, 100, 23331}
RedNirValues == { <<0, 0>>, <<300, 200>>, <<300, 300>>, <<300, 600>>, <<300, 900>>,
                  <<300, 1100>>, <<300, 1500>>, <<400, 600>>, <<400, 900>>,
                  <<400, 1100>>, <<390, 610>> }
B11Values == {0, 50, 110, 150, 180, 300, 22869, 29694, 37269, 47369}
B12Values == {0, 300, 400}

\* The scene of the specification's worked example (section 8), green = 200
ScenarioBands ==
    [B02 |-> 200, B03 |-> 200, B04 |-> 200, B08 |-> 2000, B11 |-> 3000, B12 |-> 100]

\* A pixel the tree classifies as water (Node 6)
WaterBands ==
    [B02 |-> 100, B03 |-> 100, B04 |-> 300, B08 |-> 300, B11 |-> 50, B12 |-> 300]

BandTuples ==
    {ScenarioBands, WaterBands} \cup
    { [B02 |-> b1, B03 |-> b2, B04 |-> rn[1], B08 |-> rn[2], B11 |-> b5, B12 |-> b7] :
        b1 \in B02Values, b2 \in B03Values, rn \in RedNirValues,
        b5 \in B11Values, b7 \in B12Values }

\* np.full(shape, np.nan, dtype='uint8'): the cast of NaN to an unsigned
\* integer is undefined in C; any uint8 may result (0 on x86-64)
UInt8OfNaN == {0, 1, 255}

\* The calls of wofs_classify made on one dataset
MaxCalls == 2

\* The band variables of dataset_in that wofs_classify reads
BandNames == {"B02", "B03", "B04", "B08", "B11", "B12"}

\* A dataset whose six bands all have the numeric type d
Uniform(d) == [b \in BandNames |-> d]

\* What dc.load gives for s2_l2a (uint16 digital numbers), and the same scene
\* held as float32 or as float64
S2Dtypes == Uniform("uint16")
DatasetDtypes == { Uniform(d) : d \in {"uint16", "float32", "float64"} }

\* Every combination of numeric types of the six bands
BandDtypes == [BandNames -> {"uint16", "float32", "float64"}]

\* A pixel with B11 >= B03, B08 >= B04 and B12 >= B03 and small sums: the
\* differences and sums of _band_ratio are the same numbers whether numpy
\* takes them in uint16 or in floating point, and no ratio is near a threshold
NoWrapBands ==
    [B02 |-> 200, B03 |-> 100, B04 |-> 300, B08 |-> 600, B11 |-> 300, B12 |-> 300]

\* dtype = blue.values.dtype, then the astype assignments x.values = x.values.astype(..):
\* the types of the six band arrays afterwards.  blue .. swir2 are
\* dataset_in.B02 .. dataset_in.B12, DataArrays on the dataset's own
\* variables, so the assignment to .values replaces the dataset's arrays.
astype_bands(dt, enforce) ==
    LET dtype == dt["B02"]
    IN  IF enforce
        THEN IF dtype # "float64" THEN Uniform("float64") ELSE dt
        ELSE IF dtype = "float64" THEN dt
             ELSE IF dtype # "float32" THEN Uniform("float32") ELSE dt

InitClassify ==
    /\ bands \in BandTuples
    /\ clean_mask \in BOOLEAN
    /\ no_data_u8 \in UInt8OfNaN
    /\ classified = << >>
    /\ written = << >>
    /\ classified_clean = << >>
    /\ input_data = << >>
    /\ index = 0
    /\ s2_data = << >>
    /\ wofls = << >>
    /\ results_wet = EmptyDict
    /\ results_clear = EmptyDict
    /\ ret = "pending"
    /\ NoPool
    \* the call of get_wofs_for_point on every band tuple; every type and
    \* both values of the flag on the water pixel and the worked example;
    \* every combination of band types on a pixel that integer arithmetic
    \* leaves as it is
    /\ \/ dtypes = S2Dtypes /\ enforce_float64 = FALSE
       \/ /\ bands \in {WaterBands, ScenarioBands}
          /\ dtypes \in DatasetDtypes
          /\ enforce_float64 \in BOOLEAN
       \/ /\ bands = NoWrapBands
          /\ dtypes \in BandDtypes
          /\ enforce_float64 \in BOOLEAN
    /\ calls = << >>
    /\ NoWindow
    /\ NoRequest
    /\ NoMerge
    /\ NoAccuracy

WofsClassify ==
    /\ classified = << >>
    /\ classified' = << run_regression(bands, no_data_u8) >>
    /\ written' = WritingNodes(bands)
    /\ classified_clean' = << wofs_classify(bands, clean_mask, no_data_u8) >>
    /\ dtypes' = astype_bands(dtypes, enforce_float64)
    /\ calls' = Append(calls, [dtypes |-> dtypes,
                               out |-> wofs_classify(bands, clean_mask, no_data_u8)])
    /\ UNCHANGED <<bands, clean_mask, no_data_u8, enforce_float64>>
    /\ UNCHANGED <<pvars, qvars, time, final_df, avars, rvars>>

\* wofs_classify called again on the same dataset_in, with the same arguments;
\* np.full casts NaN to uint8 afresh
WofsClassifyAgain ==
    /\ classified # << >>
    /\ Len(calls) < MaxCalls
    /\ \E fill \in UInt8OfNaN :
          /\ no_data_u8' = fill
          /\ classified' = << run_regression(bands, fill) >>
          /\ classified_clean' = << wofs_classify(bands, clean_mask, fill) >>
          /\ calls' = Append(calls, [dtypes |-> dtypes,
                                     out |-> wofs_classify(bands, clean_mask, fill)])
    /\ written' = WritingNodes(bands)
    /\ dtypes' = astype_bands(dtypes, enforce_float64)
    /\ UNCHANGED <<bands, clean_mask, enforce_float64>>
    /\ UNCHANGED <<pvars, qvars, time, final_df, avars, rvars>>

NextClassify == WofsClassify \/ WofsClassifyAgain

SpecClassify == InitClassify /\ [][NextClassify]_vars

----------------------------------------------------------------------------
(* Claims about the decision tree, checked under SpecClassify *)

IndicesDefined(b) == ndi_52(b).d # 0 /\ ndi_43(b).d # 0 /\ ndi_72(b).d # 0

\* q > k/100 for a defined ratio
ratio_gt(q, k) == 100 * q.n > k * q.d

\* The ordered rule tables of section 4.2 of the specification, first match wins
RuleTable(b) ==
    LET b1 == b.B02
        b3 == b.B04
        b7 == b.B12
        n52 == ndi_52(b)
        n43 == ndi_43(b)
        n72 == ndi_72(b)
        If(c) == IF c THEN 1 ELSE 0
    IN  IF ~ratio_gt(n52, -1) THEN                       \* left branch
             IF 2 * b1 > 4167 THEN 0
             ELSE IF 2 * b7 <= 647 THEN If(~ratio_gt(n43, 61))
             ELSE IF 2 * b1 > 2801 THEN If(~ratio_gt(n43, -1))
             ELSE IF ratio_gt(n72, -23) THEN If(b1 <= 379)
             ELSE IF ~ratio_gt(n43, 22) THEN 1
             ELSE If(b1 <= 473)
        ELSE IF ~ratio_gt(n52, 23) THEN                  \* right branch, A
             IF 2 * b1 > 669 THEN 0
             ELSE IF ratio_gt(n43, 54) THEN 0
             ELSE IF ~ratio_gt(n52, 12) THEN 1
             ELSE IF 2 * b3 <= 729 THEN If(2 * b1 <= 259)
             ELSE If(2 * b1 <= 601)
        ELSE                                             \* right branch, B
             IF ratio_gt(n52, 34) THEN 0
             ELSE IF 2 * b1 > 499 THEN 0
             ELSE IF ratio_gt(n43, 45) THEN 0
             ELSE IF 2 * b3 > 729 THEN 0
             ELSE If(2 * b1 <= 259)

\* C1: for every band tuple whose three indices are defined, the class that
\* _run_regression leaves in the grid after its masked overwrites is the class
\* of the first matching rule of the section 4.2 tables.
C1_TreeEqualsRuleTable ==
    (classified # << >> /\ IndicesDefined(bands))
        => classified[1] = RuleTable(bands)

\* The worked example has been classified: ndi_52 = 0.875 > 0.34, Node 36, class 0
C1_Witness ==
    /\ bands = ScenarioBands
    /\ IndicesDefined(bands)
    /\ written = <<36>>
    /\ classified = <<0>>

\* C3: every pixel, also one whose indices are NaN or infinite, is written by
\* exactly one leaf assignment, so the grid holds that leaf's 0 or 1 and never
\* the initial fill.
C3_ExactlyOneLeafWrites ==
    classified # << >>
        => /\ Len(written) = 1
           /\ classified[1] \in {0, 1}
           /\ \E i \in 1..Len(LeafWrites(bands)) :
                 /\ LeafWrites(bands)[i].node = written[1]
                 /\ LeafWrites(bands)[i].val = classified[1]

\* A pixel with ndi_52 = 0/0 and a fill of 255 has been written once, by Node 36
C3_Witness ==
    /\ bands.B03 = 0 /\ bands.B11 = 0
    /\ no_data_u8 = 255
    /\ written = <<36>>
    /\ classified = <<0>>

----------------------------------------------------------------------------
(* get_wofs_for_point *)

\* The measurements of the s2_l2a product that the code reads
S2Vars == {"B02", "B03", "B04", "B08", "B11", "B12", "SCL"}

Digit(d) ==
    CASE d = 0 -> "0" [] d = 1 -> "1" [] d = 2 -> "2" [] d = 3 -> "3" [] d = 4 -> "4"
      [] d = 5 -> "5" [] d = 6 -> "6" [] d = 7 -> "7" [] d = 8 -> "8" [] d = 9 -> "9"

\* str(n) of a non-negative int, as its sequence of characters
RECURSIVE str(_)
str(n) == IF n < 10 THEN << Digit(n) >> ELSE str(n \div 10) \o << Digit(n % 10) >>

\* (variant of key: the plot id alone)
key_first_only(row) == str(row.PLOT_ID)
\* str(int(plot_id))+"_"+str(month)
key(row) == str(row.PLOT_ID) \o << "_" >> \o str(row.MONTH)

\* f'{n:02d}'
fmt02d(n) == IF n < 10 THEN << "0" >> \o str(n) ELSE str(n)

\* timeYM = '2018-'+f'{month:02d}'
timeYM(month) == << "2", "0", "1", "8", "-" >> \o fmt02d(month)

\* int() of a string of decimal digits
DigitValue(c) == CHOOSE d \in 0..9 : Digit(d) = c
RECURSIVE int(_)
int(cs) ==
    IF cs = << >> THEN 0
    ELSE 10 * int(SubSeq(cs, 1, Len(cs) - 1)) + DigitValue(cs[Len(cs)])

\* The Gregorian calendar of numpy's datetime64
IsLeap(y) == (y % 4 = 0 /\ y % 100 # 0) \/ y % 400 = 0
DaysInMonth(y, m) ==
    IF m = 2 THEN (IF IsLeap(y) THEN 29 ELSE 28)
    ELSE IF m \in {4, 6, 9, 11} THEN 30 ELSE 31

\* The leap years before year y
LeapsBefore(y) == ((y - 1) \div 4) - ((y - 1) \div 100) + ((y - 1) \div 400)

\* The days from 1 January of year y to the first day of its month m
RECURSIVE DaysBeforeMonth(_, _)
DaysBeforeMonth(y, m) ==
    IF m = 1 THEN 0 ELSE DaysBeforeMonth(y, m - 1) + DaysInMonth(y, m - 1)

\* The days from 1970-01-01 to the first day of the month that is mm months
\* after 1970-01
DaysToMonth(mm) ==
    LET y == 1970 + (mm \div 12)
    IN  365 * (y - 1970) + LeapsBefore(y) - LeapsBefore(1970) + DaysBeforeMonth(y, (mm % 12) + 1)

\* np.datetime64('YYYY-MM'): a datetime64[M], the months since 1970-01
datetime64(cs) ==
    [unit |-> "M", v |-> (int(SubSeq(cs, 1, 4)) - 1970) * 12 + int(SubSeq(cs, 6, 7)) - 1]

\* datetime64[M] + np.timedelta64(n, 'D'): the month is cast to its first day
\* and the sum is a datetime64[D], the days since 1970-01-01
add_days(dt, n) == [unit |-> "D", v |-> DaysToMonth(dt.v) + n]

\* The month (in months since 1970-01) that day d falls in
MonthOfDay(d) ==
    CHOOSE mm \in (d \div 31)..(d \div 28) : DaysToMonth(mm) <= d /\ d < DaysToMonth(mm + 1)

\* str() of a datetime64: 'YYYY-MM' for months, 'YYYY-MM-DD' for days
str_datetime64(dt) ==
    LET mm == IF dt.unit = "M" THEN dt.v ELSE MonthOfDay(dt.v)
        ym == str(1970 + (mm \div 12)) \o << "-" >> \o fmt02d((mm % 12) + 1)
    IN  IF dt.unit = "M" THEN ym
        ELSE ym \o << "-" >> \o fmt02d(dt.v - DaysToMonth(mm) + 1)

\* (variant of start_date: np.datetime64(timeYM) - np.timedelta64(5,'D'))
start_date_minus5(ym) == add_days(datetime64(ym), -5)
\* start_date = np.datetime64(timeYM)
start_date(ym) == datetime64(ym)

\* end_date = np.datetime64(timeYM) + np.timedelta64(5,'D')
end_date(ym) == add_days(datetime64(ym), 5)

\* time = (str(start_date),str(end_date)), the time argument of dc.load
request_time(month) ==
    << str_datetime64(start_date(timeYM(month))), str_datetime64(end_date(timeYM(month))) >>

\* (variant of dict_update: d.setdefault(k, v), the first value stays)
dict_setdefault(d, k, v) ==
    [x \in DOMAIN d \cup {k} |-> IF x \in DOMAIN d THEN d[x] ELSE v]
\* d.update({k: v})
dict_update(d, k, v) ==
    [x \in DOMAIN d \cup {k} |-> IF x = k THEN v ELSE d[x]]

\* query = {'group_by':'solar_day', 'resampling':'nearest'}, the notebook's
\* shared query configuration
query == [group_by |-> "solar_day", resampling |-> "nearest"]

\* The geometry of row i of the catalog and its coordinates, named by the row
geometry(i) == [row |-> i]
geometry_x(i) == [row |-> i, axis |-> "x"]
geometry_y(i) == [row |-> i, axis |-> "y"]

\* geom = geometry.Geometry(input_data.geometry.values[index].__geo_interface__,
\*                          geometry.CRS('EPSG:6933'))
geom(i) == [shape |-> geometry(i), crs |-> "EPSG:6933"]

\* dc_query = deepcopy(query); dc_query.update({"time": time});
\* dc_query.update({"geopolygon": geom})
dc_query_of(i, t) == dict_update(dict_update(query, "time", t), "geopolygon", geom(i))

\* The keyword arguments of s2_data = dc.load(product='s2_l2a', y=.., x=..,
\* crs=.., time=time, output_crs=.., resolution=(-10,10)); dc_query is not
\* among them
load_kwargs(i, t) ==
    [product |-> "s2_l2a",
     y |-> << geometry_y(i), geometry_y(i) >>,
     x |-> << geometry_x(i), geometry_x(i) >>,
     crs |-> "EPSG:6933",
     time |-> t,
     output_crs |-> "EPSG:6933",
     resolution |-> << -10, 10 >>]

\* (variant of has_B02: s2_data is not None, true of every Dataset)
has_B02_not_none(ds) == TRUE
\* if not 'B02' in s2_data
has_B02(ds) == "B02" \in ds.vars

\* (variant of isin_scl: code 11 left out of the list)
isin_scl_no_snow(p) == p.SCL \in {4, 5, 6, 7}
\* clean_mask = np.isin(s2_data['SCL'], [4,5,6,7,11]), at one pixel
isin_scl(p) == p.SCL \in {4, 5, 6, 7, 11}

\* the six bands of a pixel, as wofs_classify reads them from the dataset
BandsOf(p) == [B02 |-> p.B02, B03 |-> p.B03, B04 |-> p.B04,
               B08 |-> p.B08, B11 |-> p.B11, B12 |-> p.B12]

\* wofls = wofs_classify(s2_data, clean_mask=clean_mask, no_data=np.nan, ...)['wofs']
wofs_grid(ds, fill) ==
    [t \in DOMAIN ds.time |->
        [p \in DOMAIN ds.time[t] |->
            wofs_classify(BandsOf(ds.time[t][p]), isin_scl(ds.time[t][p]), fill)]]

\* wofl_wetnocloud = (wofls==1); wofl_drynocloud = (wofls==0)
wofl_wetnocloud(g) == [t \in DOMAIN g |-> [p \in DOMAIN g[t] |-> g[t][p] = Float(1)]]
wofl_drynocloud(g) == [t \in DOMAIN g |-> [p \in DOMAIN g[t] |-> g[t][p] = Float(0)]]

\* (variant of clear: .any(dim=['x','y']))
clear_any(g) ==
    [t \in DOMAIN g |->
        \E p \in DOMAIN g[t] : wofl_wetnocloud(g)[t][p] \/ wofl_drynocloud(g)[t][p]]
\* clear = (wofl_wetnocloud | wofl_drynocloud).all(dim=['x','y']).values
clear(g) ==
    [t \in DOMAIN g |->
        \A p \in DOMAIN g[t] : wofl_wetnocloud(g)[t][p] \/ wofl_drynocloud(g)[t][p]]

\* (variant of n_clear: the number of scenes returned)
n_clear_all(g) == Cardinality(DOMAIN g)
\* n_clear = clear.sum()
n_clear(g) == Cardinality({t \in DOMAIN g : clear(g)[t]})

\* (variant of wet: wofl_wetnocloud.max() over every scene, clear or not)
wet_all_scenes(g) ==
    IF \E t \in DOMAIN g : \E p \in DOMAIN g[t] : wofl_wetnocloud(g)[t][p]
    THEN 1 ELSE 0
\* wet = wofl_wetnocloud.isel(time=clear).max().values if n_clear > 0 else 0; int(wet)
wet(g) ==
    IF n_clear(g) > 0
    THEN IF \E t \in DOMAIN g : clear(g)[t] /\ \E p \in DOMAIN g[t] : wofl_wetnocloud(g)[t][p]
         THEN 1 ELSE 0
    ELSE 0

----------------------------------------------------------------------------
(* One call of get_wofs_for_point with fresh dictionaries (the notebook's
   sequential test of the function), for every provider response of up to
   MaxScenes scenes *)

MaxScenes == 2

\* The number of pixels in the footprint: one, which is what a point query at
\* resolution (-10, 10) gives, and two, so that the reduction over x and y in
\* .all(dim=['x','y']) and .max() has something to reduce
FootprintSizes == {1, 2}

PlotIds == {1, 11}
Months == 1..12
Rows == [PLOT_ID : PlotIds, MONTH : Months]

Pixel(b, scl) ==
    [B02 |-> b.B02, B03 |-> b.B03, B04 |-> b.B04, B08 |-> b.B08,
     B11 |-> b.B11, B12 |-> b.B12, SCL |-> scl]

\* The values of the scene-classification layer of s2_l2a
SCLCodes == 0..11

\* clear water, clear land, cloud over water
BasicPixels == { Pixel(WaterBands, 6), Pixel(ScenarioBands, 4), Pixel(WaterBands, 9) }
AllCodePixels == { Pixel(b, c) : b \in {WaterBands, ScenarioBands}, c \in SCLCodes }

Grids(P, nt, np) == [1..nt -> [1..np -> P]]

\* What dc.load can return: no dataset found (an empty Dataset), or every
\* measurement of the product over one or more time slices
Datasets ==
    {EmptyDataset} \cup
    { [vars |-> S2Vars, time |-> g] :
        g \in Grids(AllCodePixels, 1, 1) \cup
              UNION { Grids(BasicPixels, nt, np) : nt \in 1..MaxScenes, np \in FootprintSizes } }

InitPoint ==
    /\ bands = ScenarioBands
    /\ clean_mask = TRUE
    /\ no_data_u8 = 0
    /\ classified = << >>
    /\ written = << >>
    /\ classified_clean = << >>
    /\ \E row \in Rows : input_data = << row >>
    /\ index = 1
    /\ s2_data = << >>
    /\ wofls = << >>
    /\ results_wet = EmptyDict
    /\ results_clear = EmptyDict
    /\ ret = "pending"
    /\ NoPool
    /\ dtypes = S2Dtypes
    /\ enforce_float64 = FALSE
    /\ calls = << >>
    /\ NoWindow
    /\ NoRequest
    /\ NoMerge
    /\ NoAccuracy

\* datacube.Datacube(..) raises before the request is built, or dc.load raises
\* (the provider cannot be reached): the exception leaves the function
GetWofsForPointRaises ==
    /\ ret = "pending"
    /\ ret' = "raised"
    /\ \/ UNCHANGED <<time, dc_query, request>>
       \/ /\ time' = request_time(input_data[index].MONTH)
          /\ dc_query' = << dc_query_of(index, request_time(input_data[index].MONTH)) >>
          /\ request' = << load_kwargs(index, request_time(input_data[index].MONTH)) >>
    /\ UNCHANGED <<input_data, index, s2_data, wofls, results_wet, results_clear>>
    /\ UNCHANGED <<cvars, qvars, dvars, final_df, avars>>

\* get_wofs_for_point(index, row, input_data, query, results_wet, results_clear)
GetWofsForPoint ==
    /\ ret = "pending"
    /\ time' = request_time(input_data[index].MONTH)
    /\ dc_query' = << dc_query_of(index, request_time(input_data[index].MONTH)) >>
    /\ request' = << load_kwargs(index, request_time(input_data[index].MONTH)) >>
    /\ \E ds \in Datasets, fill \in UInt8OfNaN :
          /\ s2_data' = << ds >>
          /\ IF ~has_B02(ds)
             THEN /\ wofls' = << >>
                  /\ UNCHANGED <<results_wet, results_clear>>
             ELSE LET g == wofs_grid(ds, fill)
                      k == key(input_data[index])
                  IN  /\ wofls' = g
                      /\ results_wet' = dict_update(results_wet, k, wet(g))
                      /\ results_clear' = dict_update(results_clear, k, n_clear(g))
    /\ ret' = "returned"
    /\ UNCHANGED <<input_data, index>>
    /\ UNCHANGED <<cvars, qvars, dvars, final_df, avars>>

NextPoint == GetWofsForPoint \/ GetWofsForPointRaises

SpecPoint == InitPoint /\ [][NextPoint]_vars

----------------------------------------------------------------------------
(* Claims about one point-month, checked under SpecPoint *)

\* The call returned after classifying a response that holds the bands
Classified == ret = "returned" /\ "B02" \in s2_data[1].vars

\* The key of the call's row
PointKey == key(input_data[index])

\* Scene t of the classified grid has every footprint pixel equal to 0 or 1
SceneIsClear(t) == \A p \in DOMAIN wofls[t] : wofls[t][p] \in {Float(0), Float(1)}

\* C2: every pixel of every scene of the response is classified 0, 1 or NaN, and
\* it is NaN exactly when its SCL code is outside {4, 5, 6, 7, 11}.
C2_OutputRespectsMask ==
    Classified =>
        /\ DOMAIN wofls = DOMAIN s2_data[1].time
        /\ \A t \in DOMAIN wofls :
              /\ DOMAIN wofls[t] = DOMAIN s2_data[1].time[t]
              /\ \A p \in DOMAIN wofls[t] :
                    /\ wofls[t][p] \in {Float(0), Float(1), NaN}
                    /\ (wofls[t][p] = NaN) <=> (s2_data[1].time[t][p].SCL \notin {4, 5, 6, 7, 11})

\* A scene with a cloud pixel that the tree alone would call water, left as NaN,
\* beside a clean pixel classified 1
C2_Witness ==
    /\ Classified
    /\ \E t \in DOMAIN wofls : \E p, q \in DOMAIN wofls[t] :
          /\ s2_data[1].time[t][p].SCL = 9
          /\ RuleTable(BandsOf(s2_data[1].time[t][p])) = 1
          /\ wofls[t][p] = NaN
          /\ s2_data[1].time[t][q].SCL = 6
          /\ wofls[t][q] = Float(1)

\* C4: the recorded wet flag is 1 exactly when some clear scene holds a pixel
\* classified 1; it is 0 whenever the recorded clear_count is 0.
C4_WetIffClearSceneHasWater ==
    (Classified /\ PointKey \in DOMAIN results_wet) =>
        /\ results_wet[PointKey] \in {0, 1}
        /\ (results_wet[PointKey] = 1) <=>
              (\E t \in DOMAIN wofls :
                  SceneIsClear(t) /\ \E p \in DOMAIN wofls[t] : wofls[t][p] = Float(1))
        /\ (results_clear[PointKey] = 0) => (results_wet[PointKey] = 0)

\* A water pixel in a scene that is not clear, beside a clear dry scene: wet stays 0
C4_Witness ==
    /\ Classified
    /\ \E t \in DOMAIN wofls :
          ~SceneIsClear(t) /\ \E p \in DOMAIN wofls[t] : wofls[t][p] = Float(1)
    /\ \E t \in DOMAIN wofls : SceneIsClear(t)
    /\ results_wet[PointKey] = 0

\* C5: the recorded clear_count is the number of scenes whose footprint pixels
\* are all 0 or 1, it lies between 0 and the number of scenes returned, and the
\* same response with one more scene appended never gives a lower count.
C5_ClearCount ==
    (Classified /\ PointKey \in DOMAIN results_clear) =>
        /\ results_clear[PointKey] = Cardinality({t \in DOMAIN wofls : SceneIsClear(t)})
        /\ 0 <= results_clear[PointKey]
        /\ results_clear[PointKey] <= Len(s2_data[1].time)
        /\ \A x \in [DOMAIN s2_data[1].time[1] -> BasicPixels], fill \in UInt8OfNaN :
              n_clear(wofs_grid([s2_data[1] EXCEPT !.time = Append(@, x)], fill))
                  >= results_clear[PointKey]

\* Two scenes of two pixels, one clear and one not: clear_count is 1
C5_Witness ==
    /\ Classified
    /\ Len(wofls) = 2
    /\ Len(wofls[1]) = 2
    /\ \E t, u \in DOMAIN wofls : SceneIsClear(t) /\ ~SceneIsClear(u)
    /\ results_clear[PointKey] = 1

\* C6: when the response holds no bands (no dataset was found), the call
\* returns normally and neither mapping has an entry.
C6_NoBandsNoEntry ==
    (s2_data # << >> /\ "B02" \notin s2_data[1].vars) =>
        /\ ret = "returned"
        /\ results_wet = EmptyDict
        /\ results_clear = EmptyDict

\* The provider returned the empty dataset and the call has returned
C6_Witness ==
    /\ s2_data = << EmptyDataset >>
    /\ ret = "returned"
    /\ DOMAIN results_wet = {}

\* C7: when the response has scenes but each scene has a pixel rejected by the
\* mask, the call returns normally with the key recorded as clear_count 0, wet 0.
C7_AllCloudyRecordsZero ==
    (/\ s2_data # << >>
     /\ "B02" \in s2_data[1].vars
     /\ Len(s2_data[1].time) >= 1
     /\ \A t \in DOMAIN s2_data[1].time : \E p \in DOMAIN s2_data[1].time[t] :
           s2_data[1].time[t][p].SCL \notin {4, 5, 6, 7, 11})
    =>  /\ ret = "returned"
        /\ PointKey \in DOMAIN results_wet
        /\ PointKey \in DOMAIN results_clear
        /\ results_clear[PointKey] = 0
        /\ results_wet[PointKey] = 0

\* Two scenes, each with a cloud pixel beside a clean water pixel: recorded as 0, 0
C7_Witness ==
    /\ Classified
    /\ Len(wofls) = 2
    /\ \A t \in DOMAIN wofls :
          /\ \E p \in DOMAIN wofls[t] : s2_data[1].time[t][p].SCL = 9
          /\ \E p \in DOMAIN wofls[t] : wofls[t][p] = Float(1)
    /\ results_clear[PointKey] = 0
    /\ results_wet[PointKey] = 0

----------------------------------------------------------------------------
(* _parallel_fun: one task per catalog row on a pool of ncpus workers.  The
   workers are interchangeable, so the model keeps where each task is and lets
   at most ncpus of them run at a time; the pool hands tasks out in the order
   of submission. *)

NRows == 2
MaxCpus == 2

PoolRows == { [PLOT_ID |-> 1, MONTH |-> 1], [PLOT_ID |-> 1, MONTH |-> 11] }
Catalogs == UNION { [1..n -> PoolRows] : n \in 1..NRows }

\* Responses of the provider to a task: nothing found, one scene of one pixel
\* (clear land, or cloud), or two scenes of one pixel of clear water
PoolDatasets ==
    {EmptyDataset} \cup
    { [vars |-> S2Vars, time |-> g] :
        g \in { << << Pixel(ScenarioBands, 4) >> >>,
                << << Pixel(WaterBands, 9) >> >>,
                << << Pixel(WaterBands, 6) >>, << Pixel(WaterBands, 6) >> >> } }

\* History: the task and value of the latest update of key k
Latest(h, k, t, v) ==
    [x \in DOMAIN h \cup {k} |-> IF x = k THEN [t |-> t, v |-> v] ELSE h[x]]

NoLocal == [st |-> "none", wet |-> 0, n_clear |-> 0]

\* (variant of Running: a worker whose task raised is lost to the pool)
Running_worker_lost(pcs) ==
    { t \in DOMAIN pcs : pcs[t] \in {"load", "stalled", "upd_wet", "upd_clear", "error", "failed"} }
\* The tasks that hold a worker: a task whose request never returns keeps its
\* worker for good
Running(pcs) ==
    { t \in DOMAIN pcs : pcs[t] \in {"load", "stalled", "upd_wet", "upd_clear"} }

InitPool ==
    /\ bands = ScenarioBands
    /\ clean_mask = TRUE
    /\ no_data_u8 = 0
    /\ classified = << >>
    /\ written = << >>
    /\ classified_clean = << >>
    /\ input_data \in Catalogs
    /\ index = 0
    /\ s2_data = << >>
    /\ wofls = << >>
    /\ ret = "pending"
    \* manager.dict() twice, tqdm(total=len(input_data)), mp.Pool(ncpus)
    /\ results_wet = EmptyDict
    /\ results_clear = EmptyDict
    /\ pbar = 0
    /\ ncpus \in 1..MaxCpus
    /\ tasks = << >>
    /\ tpc = [t \in DOMAIN input_data |-> "new"]
    /\ local = [t \in DOMAIN input_data |-> NoLocal]
    /\ mpc = "submit"
    /\ lastw = [m \in {"wet", "clear"} |-> EmptyDict]
    /\ dtypes = S2Dtypes
    /\ enforce_float64 = FALSE
    /\ calls = << >>
    /\ NoWindow
    /\ NoRequest
    /\ NoMerge
    /\ NoAccuracy

\* for index, row in input_data.iterrows(): pool.apply_async(get_wofs_for_point, ...)
Submit ==
    /\ mpc = "submit"
    /\ Len(tasks) < Len(input_data)
    /\ LET t == Len(tasks) + 1
       IN  /\ tasks' = Append(tasks, t)
           /\ tpc' = [tpc EXCEPT ![t] = "queued"]
    /\ UNCHANGED <<ncpus, local, pbar, mpc, lastw>>
    /\ UNCHANGED <<cvars, pvars, dvars, time, final_df, avars, rvars>>

\* the loop is over: pool.close(); pool.join() starts to wait
Close ==
    /\ mpc = "submit"
    /\ Len(tasks) = Len(input_data)
    /\ mpc' = "join"
    /\ UNCHANGED <<ncpus, tasks, tpc, local, pbar, lastw>>
    /\ UNCHANGED <<cvars, pvars, dvars, time, final_df, avars, rvars>>

\* (variant of has_idle_worker: the pool runs one task at a time, as with pool.apply)
has_idle_worker_serial(pcs, n) == Running(pcs) = {}
\* mp.Pool(ncpus): a worker is idle while fewer than ncpus tasks hold one
has_idle_worker(pcs, n) == Cardinality(Running(pcs)) < n

\* an idle worker takes the oldest queued task and calls get_wofs_for_point
StartTask(t) ==
    /\ tpc[t] = "queued"
    /\ \A u \in DOMAIN tpc : u < t => tpc[u] # "queued"
    /\ has_idle_worker(tpc, ncpus)
    /\ tpc' = [tpc EXCEPT ![t] = "load"]
    /\ UNCHANGED <<ncpus, tasks, local, pbar, mpc, lastw>>
    /\ UNCHANGED <<cvars, pvars, dvars, time, final_df, avars, rvars>>

\* (variant of after_raise: the first exception cancels the tasks not yet started)
after_raise_abort(pcs, t) ==
    [u \in DOMAIN pcs |-> IF u = t THEN "error"
                          ELSE IF pcs[u] \in {"new", "queued"} THEN "failed" ELSE pcs[u]]
\* What the pool does with a task whose function raised: the worker sends the
\* exception back as the task's result and goes on to the next task
after_raise(pcs, t) == [pcs EXCEPT ![t] = "error"]

\* datacube.Datacube(...) or dc.load(...) raises in the task
LoadRaises(t) ==
    /\ tpc[t] = "load"
    /\ local' = [local EXCEPT ![t].st = "raised"]
    /\ tpc' = after_raise(tpc, t)
    /\ UNCHANGED <<ncpus, tasks, pbar, mpc, lastw>>
    /\ UNCHANGED <<cvars, pvars, dvars, time, final_df, avars, rvars>>

\* dc.load never returns: nothing in the code bounds the wait, and the task
\* holds its worker from then on
LoadStalls(t) ==
    /\ tpc[t] = "load"
    /\ tpc' = [tpc EXCEPT ![t] = "stalled"]
    /\ UNCHANGED <<ncpus, tasks, local, pbar, mpc, lastw>>
    /\ UNCHANGED <<cvars, pvars, dvars, time, final_df, avars, rvars>>

\* dc.load returns; without B02 the function returns, otherwise it classifies
\* the scenes and reduces them to wet and n_clear
Load(t) ==
    /\ tpc[t] = "load"
    /\ \E ds \in PoolDatasets, fill \in UInt8OfNaN :
          IF ~has_B02(ds)
          THEN /\ local' = [local EXCEPT ![t].st = "nobands"]
               /\ tpc' = [tpc EXCEPT ![t] = "result"]
          ELSE LET g == wofs_grid(ds, fill)
               IN  /\ local' = [local EXCEPT ![t] =
                                    [st |-> "data", wet |-> wet(g), n_clear |-> n_clear(g)]]
                   /\ tpc' = [tpc EXCEPT ![t] = "upd_wet"]
    /\ UNCHANGED <<ncpus, tasks, pbar, mpc, lastw>>
    /\ UNCHANGED <<cvars, pvars, dvars, time, final_df, avars, rvars>>

\* results_wet.update({key: int(wet)}), one request to the manager process
UpdateWet(t) ==
    /\ tpc[t] = "upd_wet"
    /\ LET k == key(input_data[t])
       IN  /\ results_wet' = dict_update(results_wet, k, local[t].wet)
           /\ lastw' = [lastw EXCEPT !["wet"] = Latest(@, k, t, local[t].wet)]
    /\ tpc' = [tpc EXCEPT ![t] = "upd_clear"]
    /\ UNCHANGED <<input_data, index, s2_data, wofls, results_clear, ret>>
    /\ UNCHANGED <<ncpus, tasks, local, pbar, mpc>>
    /\ UNCHANGED <<cvars, dvars, time, final_df, avars, rvars>>

\* results_clear.update({key: int(n_clear)}), then return time
UpdateClear(t) ==
    /\ tpc[t] = "upd_clear"
    /\ LET k == key(input_data[t])
       IN  /\ results_clear' = dict_update(results_clear, k, local[t].n_clear)
           /\ lastw' = [lastw EXCEPT !["clear"] = Latest(@, k, t, local[t].n_clear)]
    /\ tpc' = [tpc EXCEPT ![t] = "result"]
    /\ UNCHANGED <<input_data, index, s2_data, wofls, results_wet, ret>>
    /\ UNCHANGED <<ncpus, tasks, local, pbar, mpc>>
    /\ UNCHANGED <<cvars, dvars, time, final_df, avars, rvars>>

\* (variant of pbar_update: advanced once per clear scene of the task)
pbar_update_scenes(n, l) == n + l.n_clear
\* pbar.update(): tqdm's counter advances by its default step of 1
pbar_update(n, l) == n + 1

\* the pool's result handler receives a task's return value and calls
\* callback=update, which advances the progress bar
Update(t) ==
    /\ tpc[t] = "result"
    /\ pbar' = pbar_update(pbar, local[t])
    /\ tpc' = [tpc EXCEPT ![t] = "done"]
    /\ UNCHANGED <<ncpus, tasks, local, mpc, lastw>>
    /\ UNCHANGED <<cvars, pvars, dvars, time, final_df, avars, rvars>>

\* the result handler receives a task's exception: no error_callback was given,
\* nobody calls get() on the AsyncResult, so the exception is dropped
DropError(t) ==
    /\ tpc[t] = "error"
    /\ tpc' = [tpc EXCEPT ![t] = "failed"]
    /\ UNCHANGED <<ncpus, tasks, local, pbar, mpc, lastw>>
    /\ UNCHANGED <<cvars, pvars, dvars, time, final_df, avars, rvars>>

\* (variant of join_returns: pool.close() without pool.join(), the function
\* goes on once every task has been handed to a worker)
join_returns_no_wait(pcs) == \A t \in DOMAIN pcs : pcs[t] \notin {"new", "queued"}
\* pool.join(): the workers exit once the task queue is drained, which is after
\* every task has ended and its result or exception has been handled
join_returns(pcs) == \A t \in DOMAIN pcs : pcs[t] \in {"done", "failed"}

\* pool.join() returns once every task's result has been handled; pbar.close();
\* return results_wet, results_clear
JoinReturn ==
    /\ mpc = "join"
    /\ join_returns(tpc)
    /\ mpc' = "returned"
    /\ UNCHANGED <<ncpus, tasks, tpc, local, pbar, lastw>>
    /\ UNCHANGED <<cvars, pvars, dvars, time, final_df, avars, rvars>>

----------------------------------------------------------------------------
(* The merge cell, run on the mappings that _parallel_fun returned *)

\* The position of the first element of cs equal to c, 0 if there is none
RECURSIVE find(_, _, _)
find(cs, c, i) ==
    IF i > Len(cs) THEN 0 ELSE IF cs[i] = c THEN i ELSE find(cs, c, i + 1)

\* cs.split(sep): the pieces of cs between the occurrences of sep
RECURSIVE split(_, _)
split(cs, sep) ==
    LET i == find(cs, sep, 1)
    IN  IF i = 0 THEN << cs >>
        ELSE << SubSeq(cs, 1, i - 1) >> \o split(SubSeq(cs, i + 1, Len(cs)), sep)

\* index.split('_')[0] +'.0'
plot_id_of_key(k) == split(k, "_")[1] \o << ".", "0" >>

\* index.split('_')[1]
month_of_key(k) == split(k, "_")[2]

\* wetdf and cleardf (one row per key, one column 0) merged on their index, an
\* inner join; the columns renamed to CLASS_WET and CLEAR_OBS; PLOT_ID and
\* MONTH filled in from each row's index
df2(w, c) ==
    [k \in DOMAIN w \cap DOMAIN c |->
        [CLASS_WET |-> w[k], CLEAR_OBS |-> c[k],
         PLOT_ID |-> plot_id_of_key(k), MONTH |-> month_of_key(k)]]

\* astype(str) of a float that is a whole number, as the plot ids are: '1.0'
str_float(x) == str(x) \o << ".", "0" >>

\* input_data.PLOT_ID.astype(str), input_data.MONTH.astype(str)
astype_str(cat) ==
    [i \in DOMAIN cat |-> [PLOT_ID |-> str_float(cat[i].PLOT_ID), MONTH |-> str(cat[i].MONTH)]]

\* pd.merge(left, right, on=['PLOT_ID','MONTH'], how='outer'): one row per
\* matching pair, one per left row without a match and one per right row
\* without a match, the missing side NaN.  left is the number of the catalog
\* row (0 for none), right the index of the df2 row (<< >> for none); the
\* order of the rows is not kept.
merge_outer(cat, d) ==
    LET on(x) == << x.PLOT_ID, x.MONTH >>
        pairs == { p \in (DOMAIN cat) \X (DOMAIN d) : on(cat[p[1]]) = on(d[p[2]]) }
    IN  { [left |-> p[1], right |-> p[2],
           PLOT_ID |-> cat[p[1]].PLOT_ID, MONTH |-> cat[p[1]].MONTH,
           CLASS_WET |-> Float(d[p[2]].CLASS_WET),
           CLEAR_OBS |-> Float(d[p[2]].CLEAR_OBS)] : p \in pairs }
        \cup
        { [left |-> i, right |-> << >>,
           PLOT_ID |-> cat[i].PLOT_ID, MONTH |-> cat[i].MONTH,
           CLASS_WET |-> NaN, CLEAR_OBS |-> NaN] :
             i \in { j \in DOMAIN cat : \A k \in DOMAIN d : on(cat[j]) # on(d[k]) } }
        \cup
        { [left |-> 0, right |-> k,
           PLOT_ID |-> d[k].PLOT_ID, MONTH |-> d[k].MONTH,
           CLASS_WET |-> Float(d[k].CLASS_WET),
           CLEAR_OBS |-> Float(d[k].CLEAR_OBS)] :
             k \in { x \in DOMAIN d : \A j \in DOMAIN cat : on(cat[j]) # on(d[x]) } }

\* The cell that builds final_df.  With no key in the mappings wetdf and
\* cleardf have no rows and no columns, the loop that adds PLOT_ID and MONTH
\* to df2 does not run, and pd.merge raises KeyError: 'PLOT_ID'.  A key
\* without '_' makes index.split('_')[1] raise IndexError.
Merge ==
    /\ mpc = "returned"
    /\ input_data' = astype_str(input_data)
    /\ LET d == df2(results_wet, results_clear)
           keys == DOMAIN results_wet \cap DOMAIN results_clear
       IN  IF keys = {} \/ \E k \in keys : Len(split(k, "_")) < 2
           THEN /\ mpc' = "merge_raised"
                /\ UNCHANGED final_df
           ELSE /\ mpc' = "merged"
                /\ final_df' = merge_outer(astype_str(input_data), d)
    /\ UNCHANGED <<index, s2_data, wofls, results_wet, results_clear, ret>>
    /\ UNCHANGED <<ncpus, tasks, tpc, local, pbar, lastw>>
    /\ UNCHANGED <<cvars, dvars, time, avars, rvars>>

Next ==
    \/ Submit
    \/ Close
    \/ JoinReturn
    \/ Merge
    \/ \E t \in DOMAIN tpc : StartTask(t)
    \/ \E t \in DOMAIN tpc : Load(t)
    \/ \E t \in DOMAIN tpc : LoadRaises(t)
    \/ \E t \in DOMAIN tpc : LoadStalls(t)
    \/ \E t \in DOMAIN tpc : UpdateWet(t)
    \/ \E t \in DOMAIN tpc : UpdateClear(t)
    \/ \E t \in DOMAIN tpc : Update(t)
    \/ \E t \in DOMAIN tpc : DropError(t)

Spec == InitPool /\ [][Next]_vars

\* The steps of the task of row t
Task(t) ==
    /\ t \in DOMAIN tpc
    /\ \/ StartTask(t) \/ Load(t) \/ LoadRaises(t) \/ LoadStalls(t)
       \/ UpdateWet(t) \/ UpdateClear(t) \/ Update(t) \/ DropError(t)

\* The notebook process runs the loop, close and join without stopping, and
\* the operating system schedules every worker process and the pool's result
\* handler: a step of _parallel_fun or of a task that stays possible is taken.
\* A request that never returns is the step LoadStalls, after which the task
\* has no step left.
FairSpec ==
    /\ Spec
    /\ WF_vars(Submit \/ Close \/ JoinReturn)
    /\ \A t \in 1..NRows : WF_vars(Task(t))

----------------------------------------------------------------------------
(* The seasonal accuracy assessment (the second notebook), cell by cell.  Its
   table input_data has one row per valid point: MONTH, ACTUAL (0 or 1) and
   PREDICTION (0, 1, or NaN where no prediction was derived).  A number of the
   report is NaN or an exact fraction n/d in lowest terms, the value numpy
   computes up to rounding.  A frame is its row labels, its column labels and
   the value at each pair of them; the labels 0 and 1 are written "0" and "1". *)

RECURSIVE GCD(_, _)
GCD(a, b) == IF b = 0 THEN a ELSE GCD(b, a % b)

Abs(x) == IF x < 0 THEN -x ELSE x

RNaN == [nan |-> TRUE, n |-> 0, d |-> 1]

\* The fraction n/d, d > 0, in lowest terms
Rat(n, d) ==
    LET g == GCD(Abs(n), d) IN [nan |-> FALSE, n |-> n \div g, d |-> d \div g]

\* x * y, x + y and x / y of numpy floats; the operands here are never
\* negative, so a zero divisor meets a zero dividend and 0 / 0 is NaN
rmul(x, y) ==
    IF x.nan \/ y.nan THEN RNaN
    ELSE IF x.n = 0 \/ y.n = 0 THEN Rat(0, 1)
    ELSE LET g1 == GCD(Abs(x.n), y.d)
             g2 == GCD(Abs(y.n), x.d)
         IN  Rat((x.n \div g1) * (y.n \div g2), (x.d \div g2) * (y.d \div g1))
radd(x, y) ==
    IF x.nan \/ y.nan THEN RNaN
    ELSE LET g == GCD(x.d, y.d)
         IN  Rat(x.n * (y.d \div g) + y.n * (x.d \div g), (x.d \div g) * y.d)
rdiv(x, y) ==
    IF x.nan \/ y.nan \/ y.n = 0 THEN RNaN
    ELSE rmul(x, Rat(y.d, y.n))

\* The label of a class value
Lab(c) == IF c = 0 THEN "0" ELSE "1"

Has(seq, x) == \E i \in DOMAIN seq : seq[i] = x

\* f.loc[r][c], f[c][r]: the value at row label r and column label c; either
\* raises KeyError when the label is not in the frame
has_labels(f, r, c) == Has(f.index, r) /\ Has(f.columns, c)
loc(f, r, c) == f.v[<< r, c >>]

\* f[name] = values: a new column, one value per row
add_column(f, name, vals) ==
    [index |-> f.index,
     columns |-> Append(f.columns, name),
     v |-> [x \in DOMAIN f.v \cup { << r, name >> : r \in DOMAIN vals } |->
               IF x[2] = name THEN vals[x[1]] ELSE f.v[x]]]

\* f.append(series): a new row named after the series, its values under the
\* columns that carry the series' labels and NaN under the others
append(f, name, vals) ==
    [index |-> Append(f.index, name),
     columns |-> f.columns,
     v |-> [x \in DOMAIN f.v \cup { << name, f.columns[i] >> : i \in DOMAIN f.columns } |->
               IF x[1] = name
               THEN (IF x[2] \in DOMAIN vals THEN vals[x[2]] ELSE RNaN)
               ELSE f.v[x]]]

\* f.loc[r, c] = x
set_cell(f, r, c, x) == [f EXCEPT !.v[<< r, c >>] = x]

\* WetMonth = [5,6,7,8,9,10]
WetMonth == {5, 6, 7, 8, 9, 10}

\* input_data[input_data['MONTH'].isin(WetMonth)]
isin_season(rows) == SelectSeq(rows, LAMBDA r : r.MONTH \in WetMonth)

\* The rows that crosstab counts in its cells: a row whose ACTUAL or
\* PREDICTION is NaN belongs to no group
notna(rows) == SelectSeq(rows, LAMBDA r : ~r.PREDICTION.nan)

\* (variant of margin_data: the margins are counted over every row)
margin_data_all(rows) == rows
\* The rows that the margins of crosstab(.., margins=True) are counted over:
\* with dropna, its default, pivot_table keeps the rows without a NaN
margin_data(rows) == SelectSeq(rows, LAMBDA r : ~r.PREDICTION.nan)

Count(rows, P(_)) == Cardinality({ i \in DOMAIN rows : P(rows[i]) })

\* pd.crosstab(ACTUAL, PREDICTION, rownames=.., colnames=.., margins=True):
\* one row per value of ACTUAL that occurs, one column per value of
\* PREDICTION that occurs, the counts of the pairs (0 for a pair that does not
\* occur), and the margins 'All'
crosstab(rows) ==
    LET data == notna(rows)
        mdata == margin_data(rows)
        rl == SelectSeq(<< 0, 1 >>, LAMBDA a : \E i \in DOMAIN data : data[i].ACTUAL = a)
        cl == SelectSeq(<< 0, 1 >>, LAMBDA c : \E i \in DOMAIN data : data[i].PREDICTION.v = c)
        ix == [i \in DOMAIN rl |-> Lab(rl[i])] \o << "All" >>
        co == [i \in DOMAIN cl |-> Lab(cl[i])] \o << "All" >>
        val(r, c) ==
            IF r = "All" /\ c = "All" THEN Len(mdata)
            ELSE IF r = "All" THEN Count(mdata, LAMBDA x : Lab(x.PREDICTION.v) = c /\ ~x.PREDICTION.nan)
            ELSE IF c = "All" THEN Count(mdata, LAMBDA x : Lab(x.ACTUAL) = r)
            ELSE Count(data, LAMBDA x : Lab(x.ACTUAL) = r /\ Lab(x.PREDICTION.v) = c)
    IN  [index |-> ix, columns |-> co,
         v |-> [x \in { << ix[i], co[j] >> : i \in DOMAIN ix, j \in DOMAIN co } |->
                   Rat(val(x[1], x[2]), 1)]]

\* confusion_matrix.loc[c][c] / confusion_matrix.loc[c]['All'] * 100
producers_accuracy(f, c) ==
    rmul(rdiv(loc(f, c, c), loc(f, c, "All")), Rat(100, 1))

\* (variant of users_accuracy: divided by the total of row c)
users_accuracy_by_row(f, c) ==
    rmul(rdiv(loc(f, c, c), loc(f, c, "All")), Rat(100, 1))
\* confusion_matrix[c][c] / confusion_matrix[c]['All'] * 100
users_accuracy(f, c) ==
    rmul(rdiv(loc(f, c, c), loc(f, "All", c)), Rat(100, 1))

\* (confusion_matrix[0][0] + confusion_matrix[1][1]) / confusion_matrix['All']['All'] * 100
overall_accuracy(f) ==
    rmul(rdiv(radd(loc(f, "0", "0"), loc(f, "1", "1")), loc(f, "All", "All")), Rat(100, 1))

\* (2*(User's[0]*Producer's[0]) / (User's[0] + Producer's[0])) / 100
fscore_matrix(f) ==
    LET u == loc(f, "User's", "0")
        q == loc(f, "0", "Producer's")
    IN  rdiv(rdiv(rmul(Rat(2, 1), rmul(u, q)), radd(u, q)), Rat(100, 1))

\* sklearn's f1_score(y_true, y_pred), binary with positive label 1:
\* 2 tp / (2 tp + fp + fn), and 0.0 where that is 0 / 0
f1_score(rows) ==
    LET tp == Count(rows, LAMBDA x : x.ACTUAL = 1 /\ x.PREDICTION = Float(1))
        fp == Count(rows, LAMBDA x : x.ACTUAL = 0 /\ x.PREDICTION = Float(1))
        fn == Count(rows, LAMBDA x : x.ACTUAL = 1 /\ x.PREDICTION = Float(0))
    IN  IF 2 * tp + fp + fn = 0 THEN Rat(0, 1) ELSE Rat(2 * tp, 2 * tp + fp + fn)

\* The rows of a table checked for every table
MaxRows == 3

AccMonths == {1, 5}
AccRows == [MONTH : AccMonths, ACTUAL : {0, 1}, PREDICTION : {Float(0), Float(1), NaN}]

\* The table of the specification's worked example (section 8): 100 rows of
\* a wet month with the pairs (0,0) x 40, (0,1) x 5, (1,0) x 3, (1,1) x 52
ExampleTable ==
    [i \in 1..100 |->
        [MONTH |-> 5,
         ACTUAL |-> IF i <= 45 THEN 0 ELSE 1,
         PREDICTION |-> IF i <= 40 \/ (45 < i /\ i <= 48) THEN Float(0) ELSE Float(1)]]

\* The tables: every table of up to MaxRows rows that has a wet-season row with
\* a prediction, as the table of each zone has, and the worked example
AccTables ==
    { t \in UNION { [1..n -> AccRows] : n \in 1..MaxRows } : notna(isin_season(t)) # << >> }
    \cup {ExampleTable}

InitAccuracy ==
    /\ bands = ScenarioBands
    /\ clean_mask = TRUE
    /\ no_data_u8 = 0
    /\ classified = << >>
    /\ written = << >>
    /\ classified_clean = << >>
    /\ dtypes = S2Dtypes
    /\ enforce_float64 = FALSE
    /\ calls = << >>
    /\ index = 0
    /\ s2_data = << >>
    /\ wofls = << >>
    /\ results_wet = EmptyDict
    /\ results_clear = EmptyDict
    /\ ret = "pending"
    /\ NoPool
    /\ NoWindow
    /\ NoRequest
    /\ NoMerge
    /\ input_data \in AccTables
    /\ Wet_Season = << >>
    /\ confusion_matrix = NoFrame
    /\ apc = "start"

Others == <<cvars, qvars, dvars, rvars, time, final_df,
            index, s2_data, wofls, results_wet, results_clear, ret>>

\* Wet_Season = input_data[input_data['MONTH'].isin(WetMonth)]
SelectSeason ==
    /\ apc = "start"
    /\ Wet_Season' = isin_season(input_data)
    /\ apc' = "season"
    /\ UNCHANGED <<input_data, confusion_matrix, Others>>

\* confusion_matrix = pd.crosstab(Wet_Season['ACTUAL'], Wet_Season['PREDICTION'], .., margins=True)
Crosstab ==
    /\ apc = "season"
    /\ confusion_matrix' = crosstab(Wet_Season)
    /\ apc' = "crosstab"
    /\ UNCHANGED <<input_data, Wet_Season, Others>>

\* confusion_matrix["Producer's"] = [.loc[0][0] / .loc[0]['All'] * 100,
\*                                  .loc[1][1] / .loc[1]['All'] * 100, np.nan];
\* a class that does not occur has no row or column and the lookup raises
Producers ==
    /\ apc = "crosstab"
    /\ IF has_labels(confusion_matrix, "0", "0") /\ has_labels(confusion_matrix, "1", "1")
       THEN /\ confusion_matrix' =
                   add_column(confusion_matrix, "Producer's",
                              [r \in {"0", "1", "All"} |->
                                  IF r = "All" THEN RNaN
                                  ELSE producers_accuracy(confusion_matrix, r)])
            /\ apc' = "producers"
       ELSE /\ apc' = "KeyError"
            /\ UNCHANGED confusion_matrix
    /\ UNCHANGED <<input_data, Wet_Season, Others>>

\* users_accuracy = pd.Series([.., ..]).rename("User's");
\* confusion_matrix = confusion_matrix.append(users_accuracy)
Users ==
    /\ apc = "producers"
    /\ confusion_matrix' =
           append(confusion_matrix, "User's",
                  [c \in {"0", "1"} |-> users_accuracy(confusion_matrix, c)])
    /\ apc' = "users"
    /\ UNCHANGED <<input_data, Wet_Season, Others>>

\* confusion_matrix.loc["User's", "Producer's"] = (.. + ..) / ..['All']['All'] * 100
Overall ==
    /\ apc = "users"
    /\ confusion_matrix' =
           set_cell(confusion_matrix, "User's", "Producer's", overall_accuracy(confusion_matrix))
    /\ apc' = "overall"
    /\ UNCHANGED <<input_data, Wet_Season, Others>>

\* input_data['PREDICTION'] = input_data['PREDICTION'].astype(str).astype(int):
\* a column with a NaN is a float column, its strings are 'nan' and '1.0', and
\* int() of them raises ValueError; a column of ints is left as it was
AstypeInt ==
    /\ apc = "overall"
    /\ apc' = IF \E i \in DOMAIN input_data : input_data[i].PREDICTION.nan
              THEN "ValueError" ELSE "astype"
    /\ UNCHANGED <<input_data, Wet_Season, confusion_matrix, Others>>

\* fscore = pd.Series([.., f1_score(input_data['ACTUAL'], input_data['PREDICTION'])])
\*              .rename("F-score"); confusion_matrix = confusion_matrix.append(fscore)
Fscore ==
    /\ apc = "astype"
    /\ confusion_matrix' =
           append(confusion_matrix, "F-score",
                  [c \in {"0", "1"} |->
                      IF c = "0" THEN fscore_matrix(confusion_matrix)
                      ELSE f1_score(input_data)])
    /\ apc' = "fscore"
    /\ UNCHANGED <<input_data, Wet_Season, Others>>

NextAccuracy ==
    \/ SelectSeason
    \/ Crosstab
    \/ Producers
    \/ Users
    \/ Overall
    \/ AstypeInt
    \/ Fscore

SpecAccuracy == InitAccuracy /\ [][NextAccuracy]_vars

----------------------------------------------------------------------------
(* Claim about the classifier's effect on its input, checked under
   SpecClassify *)

\* Every call so far returned the output of the first call
SameOutputs == \A i \in DOMAIN calls : calls[i].out = calls[1].out

\* C20: a call of wofs_classify leaves its input dataset as it was, band
\* values and band numeric types, and calls on the same dataset return
\* identical outputs.
C20_InputUnchanged ==
    calls # << >> =>
       /\ dtypes = calls[1].dtypes
       /\ \A i \in DOMAIN calls : calls[i].dtypes = calls[1].dtypes
       /\ SameOutputs

\* C22: for every combination of numeric types of the six input bands, the
\* six arrays that wofs_classify passes to the decision tree have one and the
\* same floating-point width: float64 when enforce_float64 is set, otherwise
\* float32, or float64 if the inputs were float64 already.
C22_OneFloatWidth ==
    calls # << >> =>
       \E w \in {"float32", "float64"} :
          /\ dtypes = Uniform(w)
          /\ enforce_float64 => w = "float64"
          /\ ~enforce_float64 => (w = "float64" <=> calls[1].dtypes = Uniform("float64"))

----------------------------------------------------------------------------
(* Claim about the time window, checked under SpecPoint *)

\* The two digits of each month of the year
MonthDigits ==
    << << "0", "1" >>, << "0", "2" >>, << "0", "3" >>, << "0", "4" >>,
       << "0", "5" >>, << "0", "6" >>, << "0", "7" >>, << "0", "8" >>,
       << "0", "9" >>, << "1", "0" >>, << "1", "1" >>, << "1", "2" >> >>

\* The window of month m: from the month 2018-mm, which starts on its first
\* day, to the date 2018-mm-06, five days after the first
WindowOfMonth(m) ==
    << << "2", "0", "1", "8", "-" >> \o MonthDigits[m],
       << "2", "0", "1", "8", "-" >> \o MonthDigits[m] \o << "-", "0", "6" >> >>

CarriesPointAndWindow(kw) ==
    /\ {"x", "y", "crs", "time", "resolution"} \subseteq DOMAIN kw
    /\ kw.x = << geometry_x(index), geometry_x(index) >>
    /\ kw.y = << geometry_y(index), geometry_y(index) >>
    /\ kw.crs = "EPSG:6933"
    /\ kw.time = request_time(input_data[index].MONTH)
    /\ kw.resolution = << -10, 10 >>

\* The request names the grouping and resampling rules of the query
CarriesQueryRules(kw) ==
    /\ {"group_by", "resampling"} \subseteq DOMAIN kw
    /\ kw.group_by = query.group_by
    /\ kw.resampling = query.resampling

\* C21: the request that get_wofs_for_point sends to the data provider
\* carries the grouping rule (solar day) and the resampling rule (nearest) of
\* the shared query configuration, together with the point footprint, the
\* spatial reference, the time window and the resolution of 10 units per
\* pixel.
C21_RequestCarriesQuery ==
    request # << >> =>
       /\ CarriesPointAndWindow(request[1])
       /\ CarriesQueryRules(request[1])

----------------------------------------------------------------------------
(* Claims about _parallel_fun, checked under Spec *)

\* No two catalog rows have the same plot id and month
RowsDistinct ==
    \A i, j \in DOMAIN input_data : i # j => input_data[i] # input_data[j]

\* The tasks that classified a response and so have a wet and a clear_count
Produced == { t \in DOMAIN local : local[t].st = "data" }

\* Each row was handed to the pool once, in catalog order
OneTaskPerRow ==
    /\ Len(tasks) = Len(input_data)
    /\ \A i \in DOMAIN tasks : tasks[i] = i

\* C8: when the rows' keys are distinct, the mappings that _parallel_fun returns
\* hold exactly the keys of the tasks that produced a result, each with that
\* task's wet and clear_count, whatever the order of completion and the pool
\* size; one task was submitted per row.
C8_ReturnedMappings ==
    (mpc = "returned" /\ RowsDistinct) =>
        /\ OneTaskPerRow
        /\ DOMAIN results_wet = { key(input_data[t]) : t \in Produced }
        /\ DOMAIN results_clear = { key(input_data[t]) : t \in Produced }
        /\ \A t \in Produced :
              /\ results_wet[key(input_data[t])] = local[t].wet
              /\ results_clear[key(input_data[t])] = local[t].n_clear

\* Two rows with different keys and different results ran on a pool of two
\* workers, and both entries are in the returned mappings
C8_Witness ==
    /\ mpc = "returned"
    /\ RowsDistinct
    /\ ncpus = 2
    /\ Len(input_data) = 2
    /\ Produced = {1, 2}
    /\ local[1].wet # local[2].wet
    /\ Cardinality(DOMAIN results_wet) = 2

\* C9: under every key, each returned mapping holds the value of the latest
\* update made to that mapping for the key, also when several rows share the
\* key; every task that had a result ended normally.
C9_LastWriteWins ==
    mpc = "returned" =>
        /\ DOMAIN results_wet = DOMAIN lastw["wet"]
        /\ DOMAIN results_clear = DOMAIN lastw["clear"]
        /\ \A k \in DOMAIN results_wet : results_wet[k] = lastw["wet"][k].v
        /\ \A k \in DOMAIN results_clear : results_clear[k] = lastw["clear"][k].v
        /\ \A t \in Produced : tpc[t] = "done"

\* Two rows share a key, the first row's task recorded wet = 1 and the second
\* row's task overwrote it with 0
C9_Witness ==
    /\ mpc = "returned"
    /\ Len(input_data) = 2
    /\ key(input_data[1]) = key(input_data[2])
    /\ Produced = {1, 2}
    /\ local[1].wet = 1
    /\ local[2].wet = 0
    /\ lastw["wet"][key(input_data[1])].t = 2
    /\ results_wet[key(input_data[1])] = 0

\* The tasks whose provider request raised
Raised == { t \in DOMAIN local : local[t].st = "raised" }

\* What C10 says of the tasks other than its key clause: one submission per row,
\* a failed task made no recorded update, every other task ran to its end and
\* the key of each task with a result is in both mappings
C10_Rest ==
    /\ OneTaskPerRow
    /\ \A t \in Raised :
          /\ tpc[t] = "failed"
          /\ \A m \in DOMAIN lastw : \A k \in DOMAIN lastw[m] : lastw[m][k].t # t
    /\ \A t \in DOMAIN tpc \ Raised :
          /\ tpc[t] = "done"
          /\ local[t].st \in {"nobands", "data"}
          /\ local[t].st = "data" =>
                /\ key(input_data[t]) \in DOMAIN results_wet
                /\ key(input_data[t]) \in DOMAIN results_clear

\* C10 as stated: the key of a failed task is absent from both mappings
C10_Original ==
    mpc = "returned" =>
        /\ C10_Rest
        /\ \A t \in Raised :
              /\ key(input_data[t]) \notin DOMAIN results_wet
              /\ key(input_data[t]) \notin DOMAIN results_clear

\* C10 (amended): a failed task is not submitted again and records nothing;
\* its key is absent from both mappings unless another row with the same key
\* produced a result; every other task runs to its end and records its result.
C10_FailedTaskLeavesNoEntry ==
    mpc = "returned" =>
        /\ C10_Rest
        /\ \A t \in Raised :
              (key(input_data[t]) \in DOMAIN results_wet \cup DOMAIN results_clear)
                  => \E u \in Produced : u # t /\ key(input_data[u]) = key(input_data[t])

\* The first row's task failed, the second row's task (another key) recorded
\* its result, and _parallel_fun has returned
C10_Witness ==
    /\ mpc = "returned"
    /\ Len(input_data) = 2
    /\ local[1].st = "raised"
    /\ tpc[1] = "failed"
    /\ local[2].st = "data"
    /\ key(input_data[1]) # key(input_data[2])
    /\ key(input_data[1]) \notin DOMAIN results_wet
    /\ key(input_data[2]) \in DOMAIN results_wet

\* _parallel_fun has returned (the merge cell may have run since)
Returned == mpc \in {"returned", "merged", "merge_raised"}

\* C11: once _parallel_fun has returned every submitted task has ended and its
\* result has been handled, and from then on no step changes a task or either
\* mapping: the merge cell reads mappings that no task writes any more.
C11_NoWriteAfterReturn ==
    /\ [](Returned => /\ OneTaskPerRow
                      /\ \A t \in DOMAIN tpc : tpc[t] \in {"done", "failed"})
    /\ [][Returned => /\ tpc' = tpc
                      /\ results_wet' = results_wet
                      /\ results_clear' = results_clear]_vars

\* Two tasks on two workers both recorded a result before _parallel_fun
\* returned, and the merge cell has built its table from them
C11_Witness ==
    /\ mpc = "merged"
    /\ ncpus = 2
    /\ Produced = {1, 2}
    /\ Cardinality(DOMAIN results_wet) = 2
    /\ Cardinality(final_df) = 2

\* The tasks whose provider request never returns
Stalled == { t \in DOMAIN tpc : tpc[t] = "stalled" }

\* Every task that is not stalled has been run to its end and, if it had a
\* result, its key is in both mappings
OthersRan ==
    /\ ~Returned
    /\ \A u \in DOMAIN tpc \ Stalled :
          /\ tpc[u] \in {"done", "failed"}
          /\ local[u].st = "data" =>
                /\ key(input_data[u]) \in DOMAIN results_wet
                /\ key(input_data[u]) \in DOMAIN results_clear

\* C12 as stated: whenever a task is stalled in its request, every other task
\* is eventually run to its end and its result recorded
C12_Original == (Stalled # {}) ~> OthersRan

\* C12 (amended): as long as fewer tasks are stalled than the pool has
\* workers, every other task is eventually run to its end and its result
\* recorded; a stalled task holds its worker, so with as many stalled tasks
\* as workers the tasks still queued are never run.
C12_StallBlocksOnlyItsWorker ==
    [](Cardinality(Stalled) < ncpus) => ((Stalled # {}) ~> OthersRan)

\* The first task is stalled on a pool of two workers and the second task,
\* started after it, has recorded its result
C12_Witness ==
    /\ ncpus = 2
    /\ Len(input_data) = 2
    /\ tpc[1] = "stalled"
    /\ tpc[2] = "done"
    /\ local[2].st = "data"
    /\ mpc = "join"
    /\ key(input_data[2]) \in DOMAIN results_wet

\* The tasks whose function returned and whose callback has run
Completed == { t \in DOMAIN tpc : tpc[t] = "done" }

\* C13: the progress counter starts at 0, is at every moment the number of
\* tasks that have completed (their function returned and the callback ran),
\* so it never exceeds the number of submitted tasks and equals the number of
\* catalog rows once every task has completed; each step leaves it alone or
\* adds exactly one, together with one task completing, however many scenes
\* the task classified.
C13_ProgressCounter ==
    /\ pbar = 0
    /\ [](/\ pbar = Cardinality(Completed)
          /\ pbar <= Len(tasks)
          /\ (Completed = DOMAIN tpc) => pbar = Len(input_data))
    /\ [][\/ pbar' = pbar
          \/ /\ pbar' = pbar + 1
             /\ \E t \in DOMAIN tpc :
                   /\ tpc[t] = "result" /\ tpc'[t] = "done"
                   /\ \A u \in DOMAIN tpc \ {t} : tpc'[u] = tpc[u]]_vars

\* Both tasks of a two-row catalog have completed, one of them after
\* classifying two clear scenes, and the counter stands at 2
C13_Witness ==
    /\ Len(input_data) = 2
    /\ Completed = {1, 2}
    /\ local[1].st = "data"
    /\ local[1].n_clear = 2
    /\ pbar = 2

\* The two values stored under key k were written by one task
SameWriter(k) == lastw["wet"][k].t = lastw["clear"][k].t

\* C23: when _parallel_fun returns the two mappings have the same keys, the
\* two values stored under a key were computed by one and the same task, in
\* every interleaving of the tasks' updates and also when rows share a key,
\* and a stored wet = 1 is paired with a stored clear_count >= 1.
C23_PairFromOneTask ==
    mpc = "returned" =>
       /\ DOMAIN results_wet = DOMAIN results_clear
       /\ \A k \in DOMAIN results_wet :
             /\ SameWriter(k)
             /\ results_wet[k] = 1 => results_clear[k] >= 1

\* How far a task has come: a task only moves forward, so that it is started
\* once and ends once
Stage(pc) ==
    CASE pc = "new" -> 0
      [] pc = "queued" -> 1
      [] pc = "load" -> 2
      [] pc \in {"stalled", "upd_wet", "error"} -> 3
      [] pc = "upd_clear" -> 4
      [] pc = "result" -> 5
      [] pc \in {"done", "failed"} -> 6

\* C24: if no request stalls for ever, then for every catalog and every pool
\* of one or more workers _parallel_fun eventually returns, and by then each
\* row's task has been submitted once, started once and has ended (checked
\* under FairSpec).
C24_Terminates ==
    /\ [](Stalled = {}) => <>(mpc = "returned")
    /\ [](mpc = "returned" =>
             /\ Len(tasks) = Len(input_data)
             /\ \A t \in DOMAIN input_data :
                   /\ Cardinality({ i \in DOMAIN tasks : tasks[i] = t }) = 1
                   /\ Stage(tpc[t]) = 6)
    /\ [][\A t \in DOMAIN tpc :
             tpc'[t] # tpc[t] =>
                /\ Stage(tpc'[t]) > Stage(tpc[t])
                /\ Stage(tpc'[t]) = 2 => Stage(tpc[t]) = 1]_vars

\* C24 witness: on a pool of one worker the first task's request failed, the
\* second task ran after it, and _parallel_fun has returned
C24_Witness ==
    /\ mpc = "returned"
    /\ ncpus = 1
    /\ Len(input_data) = 2
    /\ tpc[1] = "failed"
    /\ tpc[2] = "done"
    /\ local[2].st = "data"
    /\ pbar = 1

----------------------------------------------------------------------------
(* Claim about the merge cell, checked under Spec *)

\* The key a task builds from a catalog row, read from the row's PLOT_ID and
\* MONTH as the merge cell left them: '12.0' and '5' give 12_5
KeyOfMergedRow(r) ==
    SubSeq(r.PLOT_ID, 1, Len(r.PLOT_ID) - 2) \o << "_" >> \o r.MONTH

\* The merged table has each catalog row once and no other row, with the
\* values recorded under the row's key where there is an entry and NaN in
\* both columns where there is none
TableIsOuterJoin ==
    /\ \A r \in final_df : r.left \in DOMAIN input_data
    /\ \A i \in DOMAIN input_data :
          /\ Cardinality({ r \in final_df : r.left = i }) = 1
          /\ \A r \in final_df :
                r.left = i =>
                   LET k == KeyOfMergedRow(input_data[i])
                   IN  IF k \in DOMAIN results_wet
                       THEN /\ k \in DOMAIN results_clear
                            /\ r.CLASS_WET = Float(results_wet[k])
                            /\ r.CLEAR_OBS = Float(results_clear[k])
                       ELSE /\ k \notin DOMAIN results_clear
                            /\ r.CLASS_WET = NaN
                            /\ r.CLEAR_OBS = NaN

\* C18: once the merge cell has run there is a merged table, in which every
\* catalog row appears exactly once, with the CLASS_WET and CLEAR_OBS recorded
\* under the key built from the row's plot id and month when there is such an
\* entry and with NaN in both exactly when no entry was recorded for the key.
C18_MergedTable ==
    mpc \in {"merged", "merge_raised"} => (mpc = "merged" /\ TableIsOuterJoin)

----------------------------------------------------------------------------
(* Claims about the accuracy assessment, checked under SpecAccuracy *)

\* The counts of the season's pairs, taken from the rows themselves
M(a, q) ==
    Cardinality({ i \in DOMAIN Wet_Season :
                    Wet_Season[i].ACTUAL = a /\ Wet_Season[i].PREDICTION = Float(q) })
RowTotal(c) == M(c, 0) + M(c, 1)
ColTotal(c) == M(0, c) + M(1, c)
GrandTotal == M(0, 0) + M(0, 1) + M(1, 0) + M(1, 1)

\* Both classes occur as ACTUAL and as PREDICTION in the season
BothClasses == \A c \in {0, 1} : RowTotal(c) > 0 /\ ColTotal(c) > 0

\* The report holds the producer's, user's and overall accuracy
Reported == apc \in {"overall", "astype", "ValueError", "fscore"}

\* C14: the F1 score placed in the report of a season is the standard binary
\* F1 (positive class 1) of the (ACTUAL, PREDICTION) pairs of that season, the
\* rows its confusion matrix is built from, and not of rows of other months.
C14_FscoreFromSeasonPairs ==
    apc = "fscore" => loc(confusion_matrix, "F-score", "1") = f1_score(Wet_Season)

InPercent(x) == ~x.nan /\ 0 <= x.n /\ x.n <= 100 * x.d

\* C16: for every season table, one in which a class never occurs as ACTUAL or
\* never occurs as PREDICTION included, the accuracy computation does not fail
\* and its report holds an overall accuracy in [0, 100] and producer's and
\* user's accuracies that are each in [0, 100] or NaN.
C16_ZeroMarginNeverFails ==
    /\ apc # "KeyError"
    /\ Reported =>
          /\ InPercent(loc(confusion_matrix, "User's", "Producer's"))
          /\ \A c \in {"0", "1"} :
                /\ loc(confusion_matrix, c, "Producer's").nan
                      \/ InPercent(loc(confusion_matrix, c, "Producer's"))
                /\ loc(confusion_matrix, "User's", c).nan
                      \/ InPercent(loc(confusion_matrix, "User's", c))

\* The count the confusion matrix holds at row r and column c, 0 for a class
\* that does not occur and so has no row or column
Counted(r, c) ==
    IF has_labels(confusion_matrix, r, c) THEN loc(confusion_matrix, r, c).n ELSE 0

\* C17: in the confusion matrix of a season the two row totals and the two
\* column totals each add up to the grand total, each row total is the sum of
\* its row's two cells and each column total the sum of its column's two
\* cells, and the grand total is the number of season rows that have both an
\* ACTUAL and a PREDICTION value.
C17_MarginsConsistent ==
    apc \notin {"none", "start", "season"} =>
       /\ Counted("0", "All") + Counted("1", "All") = Counted("All", "All")
       /\ Counted("All", "0") + Counted("All", "1") = Counted("All", "All")
       /\ \A c \in {"0", "1"} :
             /\ Counted(c, "All") = Counted(c, "0") + Counted(c, "1")
             /\ Counted("All", c) = Counted("0", c) + Counted("1", c)
       /\ Counted("All", "All")
             = Cardinality({ i \in DOMAIN Wet_Season : ~Wet_Season[i].PREDICTION.nan })

\* C17 witness: a matrix of a season with both classes and a row that has no
\* prediction, which the grand total leaves out
C17_Witness ==
    /\ apc = "crosstab"
    /\ Len(Wet_Season) = 3
    /\ \E i \in DOMAIN Wet_Season : Wet_Season[i].PREDICTION.nan
    /\ Counted("0", "0") = 1
    /\ Counted("1", "1") = 1
    /\ Counted("All", "All") = 2
====
